---- MODULE Spec2Model ----
(***************************************************************************)
(* Reactive signals of solit: SignalBase / Computed / Signal / batch.      *)
(*                                                                         *)
(* The graph under verification has two writable signals and two computed  *)
(* signals:                                                                *)
(*     a, b  = new Signal(0)                                               *)
(*     x     = new Computed(() => Math.floor(a.get() / 2))                 *)
(*     y     = new Computed(() => {                                        *)
(*                 if (a.get() > 0) return x.get() + b.get()               *)
(*                 return 0 })                                             *)
(* so that y reaches a both directly and through x, reads x and b on one   *)
(* branch only, and x keeps its value for some changes of a.               *)
(*                                                                         *)
(* JavaScript Sets and Maps iterate in insertion order: they are modelled  *)
(* as duplicate-free sequences.                                            *)
(***************************************************************************)
EXTENDS Integers, Sequences, FiniteSets, TLC

\* ---------------------------------------------------------------- bounds
MaxVal == 2
MaxCacheSize == 2
MaxBatchDepth == 2
MaxBatches == 1
MaxBatchOps == 3
MaxReads == 3
MaxDepth == 2
MaxStack == 8
MaxRuns == 3
MaxDisposals == 2
MaxTasks == 2
MaxInvocations == 4
MaxIdleRequests == 4

\* ------------------------------------------------------------- constants
\* `undefined`: the initial _value of a Computed
Undefined == -1
\* no value was ever handed to the callback
None == -2

Writables == {"a", "b"}
Computeds == {"x", "y"}
Cells == Writables \cup Computeds
\* the Computed that watch() builds around the effect
Watchers == {"w"}
Deriveds == Computeds \cup Watchers
Nodes == Cells \cup Watchers
Subscribers == {"s1"}
\* every callback there is: s2 is subscribed only where two are needed
Callbacks == {"s1", "s2"}
Vals == 0..MaxVal
\* the calls of context.provideAsync, each with its own async callback
Tasks == 1..MaxTasks

\* ---------------------------------------------------------------- state
VARIABLES
  value,               \* SignalBase._value
  lastBroadcastValue,  \* SignalBase._lastBroadcastValue
  subscribers,         \* SignalBase._subscribers (insertion order)
  dependents,          \* SignalBase._dependents (insertion order)
  cache,               \* Computed._cache
  lastDependencies,    \* Computed._lastDependencies (insertion order)
  cacheSize,           \* Computed._cacheSize
  options,             \* SignalBase._options.hasChanged, by name
  getter,              \* Computed.getter: how the getter of x reads a
  once,                \* the callbacks that unsubscribe themselves from the
                       \* cell when it invokes them for a change
  reaction,            \* what the callback s1 of the cell `on` does when it
                       \* is invoked: target.set(val); on = "none" for none
  computeOnIdle,       \* Computed._computeOnIdle
  idleCallbackHandle,  \* Computed._idleCallbackHandle: 0 when undefined
  idleRequests,        \* the window's list of idle request callbacks, in the
                       \* order requested: [handle, cell]
  idleSeq,             \* the last handle requestIdleCallback returned
  collected,           \* the Computeds that were garbage-collected: deref()
                       \* of a WeakRef to one of them returns undefined
  context,             \* SignalBase.context
  batchedUpdateChecks, \* Signal.batchedUpdateChecks: [isNull, items]
  batchStack,          \* the `flush` local of every active batch() call
  cleanup,             \* the `cleanup` local of watch(): 0 when undefined,
                       \* else the run of the effect that returned it
  \* ---- observation of the run (not program state) ----
  delivered,           \* last value each callback was invoked with
  log,                 \* callback invocations of the last operation
  calls,               \* getter invocations of the last operation
  mru,                 \* dependency snapshots by recency of use, per Computed
  readInBatch,         \* cells read after a set() inside the open batch
  batchCount,          \* outermost batch() calls so far
  batchOps,            \* set() and get() calls made inside the open batch
  setOnly,             \* no get() was made inside the open batch
  startVals,           \* the writable values when the open batch began
  trail,               \* values of a at which x was read, from a fresh x
  trailCalls,          \* getter invocations of x along the trail
  watcher,             \* the effect: its state, the number of its runs, the
                       \* invocations of each run's cleanup, the runs and
                       \* cleanups of the last operation (fx), what the
                       \* latest run read, and the disposals
  lastOp,              \* the last operation and its result
  \* ---- Context (context.ts) ----
  stack,               \* Context.#stack
  tasks,               \* the provideAsync calls: where each one is (pc), its
                       \* value, context.value before the call, as its
                       \* callback last read it (seen), and when its promise
                       \* resolved (after)
  provided             \* the last provide call: its value, context.value
                       \* as its callback read it and after it returned

progVars == <<value, lastBroadcastValue, subscribers, dependents, cache,
              lastDependencies, cacheSize, options, getter, once, reaction,
              computeOnIdle, idleCallbackHandle, idleRequests, idleSeq, collected, context,
              batchedUpdateChecks,
              batchStack, cleanup>>
obsVars == <<delivered, log, calls, mru, readInBatch, batchCount, batchOps, setOnly,
             startVals, trail,
             trailCalls, watcher, lastOp>>
ctxVars == <<stack, tasks, provided>>
vars == <<progVars, obsVars, ctxVars>>

\* ------------------------------------------------------- Set / Map / Array
Range(seq) == {seq[i] : i \in 1..Len(seq)}

\* Set.prototype.add
SetAdd(seq, e) == IF e \in Range(seq) THEN seq ELSE Append(seq, e)

\* Set.prototype.delete
SetDelete(seq, e) == SelectSeq(seq, LAMBDA z : z # e)

\* Map.prototype.set on a sequence of <<key, value>> pairs
MapSet(m, k, v) ==
  IF \E i \in 1..Len(m) : m[i][1] = k
  THEN [i \in 1..Len(m) |-> IF m[i][1] = k THEN <<k, v>> ELSE m[i]]
  ELSE Append(m, <<k, v>>)

Take(seq, n) == SubSeq(seq, 1, IF n < Len(seq) THEN n ELSE Len(seq))

RemoveAt(seq, i) == SubSeq(seq, 1, i - 1) \o SubSeq(seq, i + 1, Len(seq))

\* notEqual: !Object.is(firstValue, secondValue)
notEqual(firstValue, secondValue) == firstValue # secondValue

\* a hasChanged option that compares contents, not references: the values
\* 2k and 2k+1 stand for two arrays with the same elements
sameContent(firstValue, secondValue) == firstValue \div 2 # secondValue \div 2

\* const { hasChanged = notEqual } = this._options; hasChanged(u, v)
HasChanged(c, u, v) ==
  IF options[c] = "notEqual" THEN notEqual(u, v)
  ELSE IF options[c] = "sameContent" THEN sameContent(u, v)
  ELSE TRUE

\* const x = e; ...  (a local bound once and used in what follows; when e
\* throws, what follows is not executed)
Let(x, F(_)) == IF x.exc THEN x ELSE F(x)

\* The record the operations below thread through: the program state and
\* the observations, plus `ret`, the value the last call returned, `exc`,
\* whether an exception is propagating, and `depth`, the number of
\* Computed.peek and updateSubscribers calls on the call stack.
Cur ==
  [value |-> value, lastBroadcastValue |-> lastBroadcastValue,
   subscribers |-> subscribers, dependents |-> dependents, cache |-> cache,
   lastDependencies |-> lastDependencies, context |-> context,
   batchedUpdateChecks |-> batchedUpdateChecks,
   delivered |-> delivered, log |-> <<>>,
   calls |-> [d \in Deriveds |-> 0], mru |-> mru, ret |-> Undefined,
   exc |-> FALSE, depth |-> 0,
   cleanup |-> cleanup, watcher |-> [watcher EXCEPT !.fx = <<>>],
   idleCallbackHandle |-> idleCallbackHandle, idleRequests |-> idleRequests,
   idleSeq |-> idleSeq]

\* a deref() that still returns the collected object
DerefAlways(d) == TRUE

\* WeakRef.deref() of the reference to d returns the object
Deref(d) == d \notin collected

RECURSIVE Peek(_, _)
RECURSIVE Get(_, _)
RECURSIVE ComputeValue(_, _)
RECURSIVE EntryMatches(_, _, _, _)
RECURSIVE CacheFind(_, _, _)
RECURSIVE UpdateSubscribers(_, _)
RECURSIVE WalkDependents(_, _, _, _)
RECURSIVE ForEachSubscriber(_, _, _)
RECURSIVE Flush(_, _)
RECURSIVE SignalSet(_, _, _)

\* a peek that leaves _lastBroadcastValue alone
BasePeekKeep(s, c) == [s EXCEPT !.ret = s.value[c]]

\* SignalBase.peek
BasePeek(s, c) ==
  [s EXCEPT !.lastBroadcastValue[c] = s.value[c], !.ret = s.value[c]]

\* Computed.setCacheDependency
SetCacheDependency(s, caller, dependency, v) ==
  [s EXCEPT !.lastDependencies[caller] = SetAdd(@, dependency),
            !.cache[caller] =
               IF Len(@) > 0
               THEN [@ EXCEPT ![1].dependencies = MapSet(@, dependency, v)]
               ELSE @]

\* SignalBase.get
Get(s, c) ==
  Let(Peek(s, c), LAMBDA s1 :
    IF Len(s.context) > 0
    THEN LET caller == s.context[Len(s.context)]
             s2 == [s1 EXCEPT !.dependents[c] = SetAdd(@, caller)]
         IN [SetCacheDependency(s2, caller, c, s1.ret) EXCEPT !.ret = s1.ret]
    ELSE s1)

\* the effect passed to watch(), which returns a new cleanup function on
\* every run (ret is the number of the run):
\*   () => { y.get(); return () => { ... } }
Effect(s) ==
  Let(Get(s, "y"), LAMBDA s1 :
    [s1 EXCEPT !.watcher.runs = @ + 1,
               !.watcher.fx = Append(@, <<"run", s1.watcher.runs + 1>>),
               !.watcher.seen = s1.ret,
               !.watcher.seenAt = [c \in Writables |-> s1.value[c]],
               !.ret = s1.watcher.runs + 1])

\* cleanup?.()
CallCleanup(s) ==
  IF s.cleanup # 0
  THEN [s EXCEPT !.watcher.fx = Append(@, <<"cleanup", s.cleanup>>),
                 !.watcher.cleaned[s.cleanup] = @ + 1]
  ELSE s

\* the getter of the Computed that watch() builds: the cleanup and the
\* effect run inside Signal.batch
WatcherGetter(s) ==
  LET flush == s.batchedUpdateChecks.isNull
  IN Let(Effect(CallCleanup([s EXCEPT !.batchedUpdateChecks.isNull = FALSE])),
         LAMBDA s1 :
       Let(IF flush THEN Flush([s1 EXCEPT !.cleanup = s1.ret], 1)
                    ELSE [s1 EXCEPT !.cleanup = s1.ret],
           LAMBDA s2 :
         [s2 EXCEPT !.batchedUpdateChecks =
                       IF flush THEN [isNull |-> TRUE, items |-> <<>>] ELSE @,
                    !.ret = Undefined]))

\* getters that read every cell through get()
GetterTracked(s, d) ==
  IF d \in Watchers THEN WatcherGetter(s) ELSE
  Let(Get(s, "a"), LAMBDA s1 :
    IF d = "x"
    THEN [s1 EXCEPT !.ret = s1.ret \div 2]
    ELSE IF s1.ret > 0
         THEN Let(Get(s1, "x"), LAMBDA s2 :
                Let(Get(s2, "b"), LAMBDA s3 :
                  [s3 EXCEPT !.ret = s2.ret + s3.ret]))
         ELSE [s1 EXCEPT !.ret = 0])

\* The getters passed to the Computed constructors
\*   x: () => Math.floor(a.get() / 2)
\*      () => Math.floor(a.peek() / 2)                        ("peek")
\*      () => { const v = a.get(); if (v === MaxVal) throw new Error()
\*              return Math.floor(v / 2) }                     ("throw")
\*   y: () => { if (a.get() > 0) return x.get() + b.get(); return 0 }
\*   w: () => { batch(() => { cleanup?.(); cleanup = callback() }) }
\* getters on a cyclic graph: x reads y, which reads x
GetterCyclic(s, d) ==
  IF d \in Watchers THEN WatcherGetter(s) ELSE
  Let(Get(s, "a"), LAMBDA s1 :
    IF d = "x"
    THEN Let(Get(s1, "y"), LAMBDA s2 : [s2 EXCEPT !.ret = s1.ret \div 2])
    ELSE Let(Get(s1, "x"), LAMBDA s2 :
           Let(Get(s2, "b"), LAMBDA s3 :
             [s3 EXCEPT !.ret = s2.ret + s3.ret])))

Getter(s, d) ==
  IF d \in Watchers THEN WatcherGetter(s) ELSE
  Let(IF d = "x" /\ getter[d] = "peek" THEN Peek(s, "a") ELSE Get(s, "a"),
      LAMBDA s1 :
    IF d = "x"
    THEN IF getter[d] = "throw" /\ s1.ret = MaxVal
         THEN [s1 EXCEPT !.exc = TRUE]
         ELSE [s1 EXCEPT !.ret = s1.ret \div 2]
    ELSE IF s1.ret > 0
         THEN Let(Get(s1, "x"), LAMBDA s2 :
                Let(Get(s2, "b"), LAMBDA s3 :
                  [s3 EXCEPT !.ret = s2.ret + s3.ret]))
         ELSE [s1 EXCEPT !.ret = 0])

\* an unshift without the splice that bounds the cache
UnshiftKeep(entries, entry, size) == <<entry>> \o entries

\* this._cache.unshift({value, dependencies: new Map()});
\* this._cache.splice(this._cacheSize, Infinity)
Unshift(entries, entry, size) == Take(<<entry>> \o entries, size)

\* The snapshot a use of d leaves at the front of an ideal cache that
\* keeps the cacheSize most recently used distinct snapshots.
Touch(used, snap, size) ==
  Take(<<snap>> \o SelectSeq(used, LAMBDA z : z # snap), size)

\* a computeValue that leaves this Computed registered with the
\* dependencies of the previous run
ComputeValueKeep(s, d) ==
  LET s1 == [s EXCEPT
               !.context = Append(@, d),
               !.cache[d] =
                  IF cacheSize[d] # 0
                  THEN Unshift(@, [value |-> s.value[d], dependencies |-> <<>>],
                               cacheSize[d])
                  ELSE @,
               !.calls[d] = @ + 1]
  IN Let(Getter(s1, d), LAMBDA s2 :
       [s2 EXCEPT
          !.value[d] = s2.ret,
          !.cache[d] = IF Len(@) > 0 THEN [@ EXCEPT ![1].value = s2.ret] ELSE @,
          !.context = SubSeq(@, 1, Len(@) - 1)])

\* Computed.computeValue
ComputeValue(s, d) ==
  LET s1 == [s EXCEPT
               !.context = Append(@, d),
               !.dependents =
                  [c \in Nodes |->
                     IF c \in Range(s.lastDependencies[d])
                     THEN SetDelete(@[c], d) ELSE @[c]],
               !.lastDependencies[d] = <<>>,
               !.cache[d] =
                  IF cacheSize[d] # 0
                  THEN Unshift(@, [value |-> s.value[d], dependencies |-> <<>>],
                               cacheSize[d])
                  ELSE @,
               !.calls[d] = @ + 1]
  IN Let(Getter(s1, d), LAMBDA s2 :
       [s2 EXCEPT
          !.value[d] = s2.ret,
          !.cache[d] = IF Len(@) > 0 THEN [@ EXCEPT ![1].value = s2.ret] ELSE @,
          !.context = SubSeq(@, 1, Len(@) - 1),
          !.mru[d] = IF Len(s2.cache[d]) > 0
                     THEN Touch(@, s2.cache[d][1].dependencies, cacheSize[d])
                     ELSE @])

\* a find callback that accepts any entry
EntryMatchesAny(s, d, i, j) == [s EXCEPT !.ret = TRUE]

\* the callback of this._cache.find in Computed.peek, from the j-th
\* recorded dependency of entry i on: ret is TRUE iff all of them match
EntryMatches(s, d, i, j) ==
  LET recorded == s.cache[d][i].dependencies
  IN IF j > Len(recorded)
     THEN [s EXCEPT !.ret = TRUE]
     ELSE Let(Peek(s, recorded[j][1]), LAMBDA s1 :
            IF s1.ret # recorded[j][2]
            THEN [s1 EXCEPT !.ret = FALSE]
            ELSE EntryMatches(s1, d, i, j + 1))

\* this._cache.find(...) from entry i on: ret is the index found, or 0
CacheFind(s, d, i) ==
  IF i > Len(s.cache[d])
  THEN [s EXCEPT !.ret = 0]
  ELSE Let(EntryMatches(s, d, i, 1), LAMBDA s1 :
         IF s1.ret THEN [s1 EXCEPT !.ret = i] ELSE CacheFind(s1, d, i + 1))

\* a cache hit that leaves the entry where it is
MoveToFrontStay(entries, i) == entries

\* this._cache.splice(indexOf(cachedResult), 1); this._cache.unshift(cachedResult)
MoveToFront(entries, i) == <<entries[i]>> \o RemoveAt(entries, i)

\* a peek that returns the value held once there is one
ComputedPeekStale(s, d) ==
  IF s.value[d] # Undefined THEN BasePeek(s, d)
  ELSE Let(ComputeValue(s, d), LAMBDA s1 : BasePeek(s1, d))

\* Computed.peek (a peek that would be the MaxStack-th on the call stack
\* ends in the engine's RangeError: a snapshot that names the Computed
\* itself makes find and peek call each other without end)
\* a cancelIdleCallback that leaves the request in the list
CancelIdleCallbackLost(s, h) == s

\* cancelIdleCallback(handle): the window drops the request
CancelIdleCallback(s, h) ==
  [s EXCEPT !.idleRequests = SelectSeq(@, LAMBDA r : r.handle # h)]

\* Computed.requestIdleComputed
RequestIdleComputed(s, d) ==
  Let(IF s.idleCallbackHandle[d] # 0
      THEN CancelIdleCallback(s, s.idleCallbackHandle[d]) ELSE s, LAMBDA s1 :
    [s1 EXCEPT !.idleSeq = @ + 1,
               !.idleRequests = Append(@, [handle |-> s1.idleSeq + 1, cell |-> d]),
               !.idleCallbackHandle[d] = s1.idleSeq + 1])

\* Computed.peek, its first statement
CancelPending(s, d) ==
  IF s.idleCallbackHandle[d] # 0
  THEN [CancelIdleCallback(s, s.idleCallbackHandle[d]) EXCEPT
          !.idleCallbackHandle[d] = 0]
  ELSE s

ComputedPeek(s, d) ==
  IF s.depth >= MaxStack THEN [s EXCEPT !.exc = TRUE]
  ELSE
  Let(CacheFind([CancelPending(s, d) EXCEPT !.depth = @ + 1], d, 1), LAMBDA found :
    Let(IF found.ret # 0
        THEN [found EXCEPT
                !.cache[d] = MoveToFront(@, found.ret),
                !.value[d] = found.cache[d][found.ret].value,
                !.mru[d] = Touch(@, found.cache[d][found.ret].dependencies,
                                 cacheSize[d])]
        ELSE ComputeValue(found, d),
        LAMBDA s1 : BasePeek([s1 EXCEPT !.depth = s.depth], d)))

Peek(s, c) == IF c \in Deriveds THEN ComputedPeek(s, c) ELSE BasePeek(s, c)

\* this._subscribers.forEach((subscriber) => subscriber(this._value))
\* an unsubscribe that removes nothing
SignalUnsubscribeKeep(s, c, sb) == s

\* an unsubscribe that empties the set of subscribers
SignalUnsubscribeAll(s, c, sb) ==
  [s EXCEPT !.subscribers[c] = <<>>, !.delivered[c][sb] = None]

\* SignalBase.unsubscribe
SignalUnsubscribe(s, c, sb) ==
  [s EXCEPT !.subscribers[c] = SetDelete(@, sb), !.delivered[c][sb] = None]

\* the body of the callback sb of c: the callback s1 of the cell
\* reaction.on writes a Writable
Callback(s, c, sb) ==
  IF reaction.on = c /\ sb = "s1"
  THEN SignalSet(s, reaction.target, reaction.val)
  ELSE s

\* subscriber(this._value): the callback sb of c runs; one of `once`
\* calls the unsubscribe function it was given
Subscriber(s, c, sb) ==
  Let([s EXCEPT !.log = Append(@, [cell |-> c, sub |-> sb, val |-> s.value[c],
                                   kind |-> "change"]),
                !.delivered[c][sb] = s.value[c]], LAMBDA s1 :
    Let(Callback(s1, c, sb), LAMBDA s2 :
      IF sb \in once THEN SignalUnsubscribe(s2, c, sb) ELSE s2))

\* an iteration by index over an array that the callback splices
NextEntryByIndex(before, after, i) == i + 1

\* the position the iteration of a Set is at after the callback at
\* position i ran: an entry the callback deleted leaves no gap, the
\* entries behind it are still to be visited
NextEntry(before, after, i) ==
  IF i <= Len(after) /\ after[i] = before[i] THEN i + 1 ELSE i

\* Set.prototype.forEach over the live _subscribers, from position i
ForEachSubscriber(s, c, i) ==
  IF i > Len(s.subscribers[c]) THEN s
  ELSE Let(Subscriber(s, c, s.subscribers[c][i]), LAMBDA s1 :
         ForEachSubscriber(s1, c, NextEntry(s.subscribers[c], s1.subscribers[c], i)))

CallSubscribers(s, c) == ForEachSubscriber(s, c, 1)

\* updateSubscribers without the hasChanged test
CheckSubscribersAlways(s, c) ==
  IF Len(s.subscribers[c]) # 0
  THEN Let(Peek(s, c), LAMBDA s1 : CallSubscribers(s1, c))
  ELSE s

\* updateSubscribers without the _subscribers.size test
CheckSubscribersEager(s, c) ==
  Let(Peek(s, c), LAMBDA s1 :
    IF Len(s.subscribers[c]) # 0 /\ HasChanged(c, s.lastBroadcastValue[c], s1.ret)
    THEN CallSubscribers(s1, c) ELSE s1)

\* the test of SignalBase.updateSubscribers:
\*   this._subscribers.size && hasChanged(this._lastBroadcastValue, this.peek())
\* (the arguments are evaluated left to right, peek last)
CheckSubscribers(s, c) ==
  IF Len(s.subscribers[c]) # 0
  THEN Let(Peek(s, c), LAMBDA s1 :
         IF HasChanged(c, s.lastBroadcastValue[c], s1.ret)
         THEN CallSubscribers(s1, c) ELSE s1)
  ELSE s

\* the loop of SignalBase.updateSubscribers over the copy of _dependents
WalkDependents(s, c, copy, i) ==
  IF i > Len(copy) THEN s
  ELSE Let(IF Deref(copy[i])
           THEN UpdateSubscribers(s, copy[i])
           ELSE [s EXCEPT !.dependents[c] = SetDelete(@, copy[i])], LAMBDA s1 :
         WalkDependents(s1, c, copy, i + 1))

\* SignalBase.updateSubscribers / Computed.updateSubscribers (a cell that
\* is among its own dependents makes the walk call itself without end:
\* RangeError, as in Computed.peek)
UpdateSubscribers(s, c) ==
  IF s.depth >= MaxStack THEN [s EXCEPT !.exc = TRUE]
  ELSE
  Let(CheckSubscribers([s EXCEPT !.depth = @ + 1], c), LAMBDA s1 :
    Let(WalkDependents(s1, c, s1.dependents[c], 1), LAMBDA s2 :
      Let(IF c \in Computeds /\ Len(s2.subscribers[c]) = 0 /\ computeOnIdle[c]
          THEN RequestIdleComputed(s2, c) ELSE s2, LAMBDA s3 :
        [s3 EXCEPT !.depth = s.depth])))

\* a requestUpdate that never defers
RequestUpdateNow(s, w) == UpdateSubscribers(s, w)

\* Signal.requestUpdate
RequestUpdate(s, w) ==
  IF ~s.batchedUpdateChecks.isNull
  THEN [s EXCEPT !.batchedUpdateChecks.items = SetAdd(@, w)]
  ELSE UpdateSubscribers(s, w)

\* a set that stores and announces every value
SignalSetAlways(s, w, v) == RequestUpdate([s EXCEPT !.value[w] = v], w)

\* Signal.set
SignalSet(s, w, v) ==
  IF HasChanged(w, s.value[w], v)
  THEN RequestUpdate([s EXCEPT !.value[w] = v], w)
  ELSE s

\* SignalBase.observe / Computed.observe
Observe(s, c, sb) ==
  Let([s EXCEPT !.subscribers[c] = SetAdd(@, sb)], LAMBDA s1 :
    IF c \in Deriveds /\ Len(s1.subscribers[c]) = 1
    THEN ComputeValue(s1, c)
    ELSE s1)

\* a subscribe that hands over the value held, without peek()
SignalSubscribeHeld(s, c, sb) ==
  Let(Observe(s, c, sb), LAMBDA s0 :
    [s0 EXCEPT
       !.ret = s.value[c],
       !.log = Append(@, [cell |-> c, sub |-> sb, val |-> s.value[c],
                          kind |-> "initial"]),
       !.delivered[c][sb] = s.value[c]])

\* SignalBase.subscribe
SignalSubscribe(s, c, sb) ==
  Let(Observe(s, c, sb), LAMBDA s0 :
    Let(Peek(s0, c), LAMBDA s1 :
      Let(Callback([s1 EXCEPT
                      !.log = Append(@, [cell |-> c, sub |-> sb, val |-> s1.ret,
                                         kind |-> "initial"]),
                      !.delivered[c][sb] = s1.ret], c, sb), LAMBDA s2 :
        [s2 EXCEPT !.ret = s1.ret])))

\* Signal.batchedUpdateChecks?.forEach(signal => signal.updateSubscribers())
\* (forEach also visits the elements added while it runs)
Flush(s, i) ==
  IF i > Len(s.batchedUpdateChecks.items) THEN s
  ELSE Let(UpdateSubscribers(s, s.batchedUpdateChecks.items[i]), LAMBDA s1 :
         Flush(s1, i + 1))

\* --------------------------------------------------- reference semantics
\* The value of a cell as a function of the writable values: what the
\* getters return when evaluated from scratch.
TrueVal(vals, c) ==
  IF c \in Writables THEN vals[c]
  ELSE IF c = "x" THEN vals["a"] \div 2
  ELSE IF vals["a"] > 0 THEN (vals["a"] \div 2) + vals["b"] ELSE 0

\* The dependencies the getter of d reads through get(), with the values
\* it reads, in reading order.
TrueSnap(vals, d) ==
  IF d = "x" THEN << <<"a", vals["a"]>> >>
  ELSE IF vals["a"] > 0
       THEN << <<"a", vals["a"]>>, <<"x", vals["a"] \div 2>>, <<"b", vals["b"]>> >>
       ELSE << <<"a", vals["a"]>> >>

\* The writables a cell may read, directly or through other cells.
Sources(c) ==
  IF c \in Writables THEN {c} ELSE IF c = "x" THEN {"a"} ELSE {"a", "b"}

\* The Computeds that may read c, directly or through other cells.
Readers(c) ==
  IF c = "a" THEN {"x", "y"} ELSE IF c \in {"b", "x"} THEN {"y"} ELSE {}

\* ------------------------------------------------------------------ Init
NoOp == [op |-> "init", cell |-> "none", sub |-> "none", val |-> None, was |-> None,
         left |-> "none", inBatch |-> FALSE,
         flush |-> FALSE, hit |-> 0, threw |-> FALSE, items |-> <<>>, setOnly |-> FALSE,
         start |-> [w \in Writables |-> 0]]

\* const { cacheSize = 1, ... } = options
DefaultCacheSize == 1

\* createContext(defaultValue)
DefaultValue == 0

IdleTask == [pc |-> "idle", v |-> None, before |-> None, seen |-> None,
             after |-> None]

\* The state after the constructors ran, for the given cacheSize and
\* hasChanged options and the given getters.
\* the Computeds of onIdle are built with computeOnIdle: true, x before
\* y, and their constructors request the first idle computation
ConstructorRequests(onIdle) ==
  SelectSeq(<<"x", "y">>, LAMBDA d : d \in onIdle)

NoReaction == [on |-> "none", target |-> "none", val |-> 0]

StartReact(sizes, opts, getters, unsubscribing, onIdle, react) ==
  /\ once = unsubscribing
  /\ reaction = react
  /\ computeOnIdle = [d \in Deriveds |-> d \in onIdle]
  /\ idleRequests = [i \in 1..Len(ConstructorRequests(onIdle)) |->
                       [handle |-> i, cell |-> ConstructorRequests(onIdle)[i]]]
  /\ idleCallbackHandle =
        [d \in Deriveds |->
           IF \E i \in 1..Len(idleRequests) : idleRequests[i].cell = d
           THEN (CHOOSE i \in 1..Len(idleRequests) : idleRequests[i].cell = d)
           ELSE 0]
  /\ idleSeq = Len(idleRequests)
  /\ collected = {}
  /\ value = [c \in Nodes |-> IF c \in Writables THEN 0 ELSE Undefined]
  /\ lastBroadcastValue = value
  /\ subscribers = [c \in Nodes |-> <<>>]
  /\ dependents = [c \in Nodes |-> <<>>]
  /\ cache = [d \in Deriveds |-> <<>>]
  /\ lastDependencies = [d \in Deriveds |-> <<>>]
  /\ cacheSize = [d \in Deriveds |->
                    IF d \in Computeds THEN sizes[d] ELSE DefaultCacheSize]
  /\ options = [c \in Nodes |-> IF c \in Cells THEN opts[c] ELSE "always"]
  /\ getter = getters
  /\ cleanup = 0
  /\ watcher = [state |-> "none", runs |-> 0,
                cleaned |-> [k \in 1..MaxRuns |-> 0], fx |-> <<>>,
                seen |-> None, seenAt |-> [c \in Writables |-> 0],
                disposals |-> 0]
  /\ context = <<>>
  /\ batchedUpdateChecks = [isNull |-> TRUE, items |-> <<>>]
  /\ batchStack = <<>>
  /\ delivered = [c \in Nodes |-> [sb \in Callbacks |-> None]]
  /\ log = <<>>
  /\ calls = [d \in Deriveds |-> 0]
  /\ mru = [d \in Deriveds |-> <<>>]
  /\ readInBatch = {}
  /\ batchCount = 0
  /\ batchOps = 0
  /\ setOnly = TRUE
  /\ startVals = [w \in Writables |-> 0]
  /\ trail = <<>>
  /\ trailCalls = 0
  /\ lastOp = NoOp
  /\ stack = <<DefaultValue>>
  /\ tasks = [p \in Tasks |-> IdleTask]
  /\ provided = [v |-> None, seen |-> None, after |-> None]

StartAll(sizes, opts, getters, unsubscribing, onIdle) ==
  StartReact(sizes, opts, getters, unsubscribing, onIdle, NoReaction)

StartWith(sizes, opts, getters, unsubscribing) ==
  StartAll(sizes, opts, getters, unsubscribing, {})

Start(sizes, opts, getters) == StartWith(sizes, opts, getters, {})

DefaultOptions == [c \in Cells |-> "notEqual"]
DefaultGetters == [d \in Computeds |-> "get"]

Init ==
  Start([d \in Computeds |-> DefaultCacheSize], DefaultOptions, DefaultGetters)

\* --------------------------------------------------------------- actions
InBatch == ~batchedUpdateChecks.isNull

Commit(s) ==
  /\ value' = s.value
  /\ lastBroadcastValue' = s.lastBroadcastValue
  /\ subscribers' = s.subscribers
  /\ dependents' = s.dependents
  /\ cache' = s.cache
  /\ lastDependencies' = s.lastDependencies
  /\ context' = s.context
  /\ batchedUpdateChecks' = s.batchedUpdateChecks
  /\ delivered' = s.delivered
  /\ log' = s.log
  /\ calls' = s.calls
  /\ mru' = s.mru
  /\ cleanup' = s.cleanup
  /\ watcher' = s.watcher
  /\ idleCallbackHandle' = s.idleCallbackHandle
  /\ idleRequests' = s.idleRequests
  /\ idleSeq' = s.idleSeq
  /\ UNCHANGED <<cacheSize, options, getter, once, reaction, computeOnIdle,
                 collected>>
  /\ UNCHANGED ctxVars

Broken == <<None>>

\* the trail after x was read at the value v of a, its getter running k times
\* (with cacheSize 0 the trail is one value of a, read up to MaxReads times)
ReadTrail(v, k) ==
  LET n == cacheSize["x"]
      go == /\ trail # Broken /\ n > 0
            /\ \/ trail = <<>>
               \/ Len(trail) <= n /\ v \notin Range(trail)
               \/ Len(trail) = n + 1 /\ v = trail[1]
      stay == trail # Broken /\ n > 0 /\ trail # <<>> /\ Len(trail) <= n + 1
              /\ trail[Len(trail)] = v
      again == n = 0 /\ trail = <<v>> /\ trailCalls < MaxReads
  IN IF stay \/ again THEN <<trail, trailCalls + k>>
     ELSE IF go \/ (n = 0 /\ trail = <<>>) THEN <<Append(trail, v), trailCalls + k>>
     ELSE <<Broken, 0>>

BreakTrail == trail' = Broken /\ trailCalls' = 0

\* w.set(v)
DoSet(w, v) ==
  /\ Commit(SignalSet(Cur, w, v))
  /\ UNCHANGED <<batchStack, readInBatch, batchCount, trail, trailCalls>>
  /\ batchOps' = IF InBatch THEN batchOps + 1 ELSE batchOps
  /\ UNCHANGED <<setOnly, startVals>>
  /\ lastOp' = [NoOp EXCEPT !.op = "set", !.cell = w, !.val = v,
                            !.left = IF lastOp.op = "unsubscribe"
                                     THEN lastOp.left ELSE "none",
                            !.inBatch = InBatch,
                            !.threw = SignalSet(Cur, w, v).exc]

\* c.get() called outside every getter
DoGet(c) ==
  LET s == Get(Cur, c)
      dirty == Range(batchedUpdateChecks.items)
  IN /\ Commit(s)
     /\ UNCHANGED <<batchStack, batchCount>>
     /\ batchOps' = IF InBatch THEN batchOps + 1 ELSE batchOps
     /\ setOnly' = IF InBatch THEN FALSE ELSE setOnly
     /\ UNCHANGED startVals
     /\ readInBatch' = IF InBatch /\ Sources(c) \cap dirty # {}
                       THEN readInBatch \cup {c} ELSE readInBatch
     /\ IF s.exc \/ context # <<>> THEN BreakTrail
        ELSE IF c = "x"
        THEN /\ trail' = ReadTrail(value["a"], s.calls["x"])[1]
             /\ trailCalls' = ReadTrail(value["a"], s.calls["x"])[2]
        ELSE IF c = "y" THEN BreakTrail
        ELSE UNCHANGED <<trail, trailCalls>>
     /\ lastOp' = [NoOp EXCEPT !.op = "get", !.cell = c,
                               !.val = IF s.exc THEN None ELSE s.ret,
                               !.inBatch = InBatch, !.threw = s.exc,
                               !.hit = IF c \in Computeds /\ ~s.exc
                                       THEN CacheFind(Cur, c, 1).ret ELSE 0]

\* c.subscribe(sb)
DoSubscribe(c, sb) ==
  LET s == SignalSubscribe(Cur, c, sb)
  IN /\ Commit(s)
     /\ UNCHANGED <<batchStack, readInBatch, batchCount, batchOps, setOnly, startVals>>
     /\ IF c \in Computeds THEN BreakTrail ELSE UNCHANGED <<trail, trailCalls>>
     /\ lastOp' = [NoOp EXCEPT !.op = "subscribe", !.cell = c, !.sub = sb,
                               !.was = value[c],
                               !.val = IF s.exc THEN None ELSE s.ret,
                               !.inBatch = InBatch, !.threw = s.exc]

\* c.observe(sb)
DoObserve(c, sb) ==
  /\ Commit(Observe(Cur, c, sb))
  /\ UNCHANGED <<batchStack, readInBatch, batchCount, batchOps, setOnly, startVals>>
  /\ IF c \in Computeds THEN BreakTrail ELSE UNCHANGED <<trail, trailCalls>>
  /\ lastOp' = [NoOp EXCEPT !.op = "observe", !.cell = c, !.sub = sb,
                            !.inBatch = InBatch,
                            !.threw = Observe(Cur, c, sb).exc]

\* c.unsubscribe(sb), or the function observe/subscribe returned
DoUnsubscribe(c, sb) ==
  /\ Commit(SignalUnsubscribe(Cur, c, sb))
  /\ UNCHANGED <<batchStack, readInBatch, batchCount, batchOps, setOnly, startVals,
                 trail, trailCalls>>
  /\ lastOp' = [NoOp EXCEPT !.op = "unsubscribe", !.cell = c, !.sub = sb,
                            !.was = IF sb \in Range(subscribers[c])
                                    THEN value[c] ELSE None,
                            !.left = IF sb \in Range(subscribers[c])
                                        /\ Len(subscribers[c]) > 1
                                     THEN c ELSE "none",
                            !.inBatch = InBatch]

\* watch(effect)
DoWatch ==
  /\ watcher.state = "none"
  /\ LET s == SignalSubscribe(Cur, "w", "s1")
     IN /\ Commit([s EXCEPT !.watcher.state = "active"])
        /\ lastOp' = [NoOp EXCEPT !.op = "watch", !.cell = "w",
                                  !.inBatch = InBatch, !.threw = s.exc]
  /\ UNCHANGED <<batchStack, readInBatch, batchCount, batchOps, setOnly, startVals,
                 trail, trailCalls>>

\* the function watch() returned: unsubscribe(); cleanup?.()
DoDispose ==
  /\ watcher.state # "none"
  /\ watcher.disposals < MaxDisposals
  /\ Commit([CallCleanup(SignalUnsubscribe(Cur, "w", "s1")) EXCEPT
               !.watcher.state = "disposed", !.watcher.disposals = @ + 1])
  /\ lastOp' = [NoOp EXCEPT !.op = "dispose", !.cell = "w", !.inBatch = InBatch]
  /\ UNCHANGED <<batchStack, readInBatch, batchCount, batchOps, setOnly, startVals,
                 trail, trailCalls>>

\* Signal.batch, up to the call of action()
BatchEnter ==
  /\ Len(batchStack) < MaxBatchDepth
  /\ batchedUpdateChecks.isNull => batchCount < MaxBatches
  /\ batchCount' = IF batchedUpdateChecks.isNull THEN batchCount + 1 ELSE batchCount
  /\ batchStack' = Append(batchStack, batchedUpdateChecks.isNull)
  /\ Commit([Cur EXCEPT !.batchedUpdateChecks.isNull = FALSE])
  /\ UNCHANGED <<readInBatch, batchOps, setOnly, trail, trailCalls>>
  /\ startVals' = IF batchedUpdateChecks.isNull
                  THEN [w \in Writables |-> value[w]] ELSE startVals
  /\ lastOp' = [NoOp EXCEPT !.op = "batchEnter", !.inBatch = InBatch]

\* Signal.batch, after action() returned
BatchFinish(s, flush) ==
  IF flush
  THEN Let(Flush(s, 1), LAMBDA s1 :
         [s1 EXCEPT !.batchedUpdateChecks = [isNull |-> TRUE, items |-> <<>>]])
  ELSE s

BatchExit ==
  /\ batchStack # <<>>
  /\ LET flush == batchStack[Len(batchStack)]
     IN /\ Commit(BatchFinish(Cur, flush))
        /\ readInBatch' = IF flush THEN {} ELSE readInBatch
        /\ batchOps' = IF flush THEN 0 ELSE batchOps
        /\ setOnly' = IF flush THEN TRUE ELSE setOnly
        /\ startVals' = IF flush THEN [w \in Writables |-> 0] ELSE startVals
        /\ lastOp' = IF flush
                      THEN [NoOp EXCEPT !.op = "batchExit", !.inBatch = TRUE,
                                        !.flush = TRUE,
                                        !.threw = BatchFinish(Cur, flush).exc,
                                        !.items = batchedUpdateChecks.items,
                                        !.setOnly = setOnly,
                                        !.start = startVals]
                      ELSE [NoOp EXCEPT !.op = "batchExit", !.inBatch = TRUE]
  /\ batchStack' = SubSeq(batchStack, 1, Len(batchStack) - 1)
  /\ UNCHANGED <<batchCount, trail, trailCalls>>

\* the action of the innermost active batch() throws and nothing catches
\* the exception: it leaves every active batch() call at `action()`
BatchThrow ==
  /\ batchStack # <<>>
  /\ batchStack' = <<>>
  /\ Commit(Cur)
  /\ lastOp' = [NoOp EXCEPT !.op = "batchThrow", !.inBatch = TRUE, !.threw = TRUE]
  /\ UNCHANGED <<readInBatch, batchCount, batchOps, setOnly, startVals, trail,
                 trailCalls>>

\* the window runs the first idle request callback:
\* this._idleCallbackHandle = undefined; this.computeValue()
IdleCallback ==
  /\ idleRequests # <<>>
  /\ LET r == idleRequests[1]
         s == ComputeValue([Cur EXCEPT !.idleRequests = Tail(@),
                                       !.idleCallbackHandle[r.cell] = 0], r.cell)
     IN /\ Commit(s)
        /\ lastOp' = [NoOp EXCEPT !.op = "idle", !.cell = r.cell,
                                  !.val = r.handle, !.inBatch = InBatch,
                                  !.threw = s.exc]
  /\ BreakTrail
  /\ UNCHANGED <<batchStack, readInBatch, batchCount, batchOps, setOnly, startVals>>

\* the garbage collector reclaims the Computed d, which the program no
\* longer references: y at any time, x (which the getter of y references)
\* once y is gone
Collect(d) ==
  /\ d \notin collected
  /\ d = "x" => "y" \in collected
  /\ idleCallbackHandle[d] = 0
  /\ collected' = collected \cup {d}
  /\ lastOp' = [NoOp EXCEPT !.op = "collect", !.cell = d, !.inBatch = InBatch]
  /\ UNCHANGED <<value, lastBroadcastValue, subscribers, dependents, cache,
                 lastDependencies, cacheSize, options, getter, once, reaction,
                 computeOnIdle, idleCallbackHandle, idleRequests, idleSeq, context,
                 batchedUpdateChecks, batchStack, cleanup>>
  /\ UNCHANGED <<delivered, log, calls, mru, readInBatch, batchCount, batchOps,
                 setOnly, startVals, trail, trailCalls, watcher>>
  /\ UNCHANGED ctxVars

\* Context.value
ContextValue(st) == st[Len(st)]

\* context.provide(v, fn), fn reading context.value
DoProvide(v) ==
  /\ provided' = [v |-> v, seen |-> ContextValue(Append(stack, v)),
                  after |-> ContextValue(stack)]
  /\ UNCHANGED <<stack, tasks, progVars, obsVars>>

\* context.provideAsync(v, fn) up to the first await of fn: the push, and
\* fn reading context.value before it awaits
ProvideAsyncCall(p, v) ==
  /\ tasks[p].pc = "idle"
  /\ stack' = Append(stack, v)
  /\ tasks' = [tasks EXCEPT ![p] = [pc |-> "awaiting", v |-> v,
                                     before |-> ContextValue(stack),
                                     seen |-> ContextValue(stack'),
                                     after |-> None]]
  /\ UNCHANGED <<provided, progVars, obsVars>>

\* fn resumes from its await, reads context.value and returns
ProvideAsyncResume(p) ==
  /\ tasks[p].pc = "awaiting"
  /\ tasks' = [tasks EXCEPT ![p].pc = "returned",
                             ![p].seen = ContextValue(stack)]
  /\ UNCHANGED <<stack, provided, progVars, obsVars>>

\* provideAsync resumes from `await fn()`: the pop, and the promise it
\* returned resolves
ProvideAsyncFinish(p) ==
  /\ tasks[p].pc = "returned"
  /\ stack' = SubSeq(stack, 1, Len(stack) - 1)
  /\ tasks' = [tasks EXCEPT ![p].pc = "done",
                             ![p].after = ContextValue(stack')]
  /\ UNCHANGED <<provided, progVars, obsVars>>

\* Tracking: a Computed with a conditional getter and a cache of one or
\* two entries gains and loses its subscriber while its dependencies change.
InitTrack ==
  \E n \in DefaultCacheSize..MaxCacheSize :
     Start([d \in Computeds |-> n], DefaultOptions, DefaultGetters)

NextTrack ==
  \/ \E w \in Writables, v \in Vals : DoSet(w, v)
  \/ \E sb \in Subscribers : DoSubscribe("y", sb)
  \/ \E sb \in Subscribers : DoUnsubscribe("y", sb)

SpecTrack == InitTrack /\ [][NextTrack]_vars

\* Callbacks that unsubscribe themselves: s1, s2, both or neither do so
\* when y invokes them for a change.
InitOnce ==
  \E u \in SUBSET Callbacks :
     StartWith([d \in Computeds |-> DefaultCacheSize], DefaultOptions,
               DefaultGetters, u)

NextOnce ==
  \/ \E w \in Writables, v \in Vals : DoSet(w, v)
  \/ \E sb \in Callbacks : DoSubscribe("y", sb)
  \/ \E sb \in Callbacks : DoUnsubscribe("y", sb)

SpecOnce == InitOnce /\ [][NextOnce]_vars

\* Idle computation: x, y or both are built with computeOnIdle; the window
\* runs the idle request callbacks between the operations of the program.
InitIdle ==
  \E onIdle \in (SUBSET Computeds) \ {{}} :
     StartAll([d \in Computeds |-> DefaultCacheSize], DefaultOptions,
              DefaultGetters, {}, onIdle)

NextIdle ==
  /\ idleSeq < MaxIdleRequests
  /\ \/ \E w \in Writables, v \in Vals : DoSet(w, v)
     \/ \E d \in Computeds : DoGet(d)
     \/ \E d \in Computeds, sb \in Subscribers : DoSubscribe(d, sb)
     \/ \E d \in Computeds, sb \in Subscribers : DoUnsubscribe(d, sb)
     \/ IdleCallback

SpecIdle == InitIdle /\ [][NextIdle]_vars

\* Collection: the program drops its Computeds while it keeps writing the
\* cells they were computed from; the collector reclaims them at any time.
NextGC ==
  \/ \E w \in Writables, v \in Vals : DoSet(w, v)
  \/ \E d \in Computeds \ collected, sb \in Subscribers : DoSubscribe(d, sb)
  \/ \E d \in Computeds \ collected, sb \in Subscribers : DoUnsubscribe(d, sb)
  \/ \E d \in Computeds : Collect(d)

SpecGC == Init /\ [][NextGC]_vars

\* Memoized reads: y, which reads x, both with a cache of two entries,
\* is read, subscribed to and unsubscribed from while the cells
\* are written, outside batches and inside batch() calls that are not nested.
InitMemo ==
  Start([d \in Computeds |-> MaxCacheSize], DefaultOptions, DefaultGetters)

NextMemo ==
  \/ ~InBatch /\ \E w \in Writables, v \in Vals : DoSet(w, v)
  \/ InBatch /\ batchOps < MaxBatchOps /\ \E v \in Vals : DoSet("a", v)
  \/ ~InBatch /\ DoGet("y")
  \/ InBatch /\ batchOps < MaxBatchOps /\ DoGet("y")
  \/ \E sb \in Subscribers : DoSubscribe("y", sb)
  \/ ~InBatch /\ \E sb \in Subscribers : DoUnsubscribe("y", sb)
  \/ ~InBatch /\ BatchEnter
  \/ BatchExit

SpecMemo == InitMemo /\ [][NextMemo]_vars

\* Writing callbacks: the callback s1 of one Writable sets a Writable to
\* MaxVal whenever it is invoked; s2 only observes. The callbacks are
\* subscribed first; then the cells are written outside and inside batches.
InitReact ==
  \E c \in Writables, w \in Writables :
     StartReact([d \in Computeds |-> DefaultCacheSize], DefaultOptions,
                DefaultGetters, {}, {}, [on |-> c, target |-> w, val |-> MaxVal])

NextReact ==
  \/ lastOp.op \in {"init", "subscribe"}
       /\ \E w \in Writables, sb \in Callbacks : DoSubscribe(w, sb)
  \/ ~InBatch /\ \E w \in Writables, v \in Vals : DoSet(w, v)
  \/ InBatch /\ batchOps < MaxBatchOps /\ \E w \in Writables, v \in Vals : DoSet(w, v)
  \/ BatchEnter
  \/ BatchExit

SpecReact == InitReact /\ [][NextReact]_vars

\* Late subscribers: s1 is subscribed to Writables outside batches; s2 is
\* subscribed to a Writable while a batch is open.
NextLate ==
  \/ ~InBatch /\ lastOp.op \in {"init", "subscribe"}
       /\ \E w \in Writables : DoSubscribe(w, "s1")
  \/ InBatch /\ \E w \in Writables :
                   "s2" \notin Range(subscribers[w]) /\ DoSubscribe(w, "s2")
  \/ InBatch /\ batchOps < MaxBatchOps /\ \E w \in Writables, v \in Vals : DoSet(w, v)
  \/ ~InBatch /\ \E w \in Writables, v \in Vals : DoSet(w, v)
  \/ BatchEnter
  \/ BatchExit

SpecLate == Init /\ [][NextLate]_vars

\* Contexts: provideAsync calls whose callbacks await, and provide calls,
\* on one context, in every interleaving.
NextContext ==
  \/ \E v \in Vals : DoProvide(v)
  \/ \E p \in Tasks, v \in Vals : ProvideAsyncCall(p, v)
  \/ \E p \in Tasks : ProvideAsyncResume(p)
  \/ \E p \in Tasks : ProvideAsyncFinish(p)

SpecContext == Init /\ [][NextContext]_vars

\* Immediate path: writes, reads and subscriptions outside every batch.
Next ==
  \/ \E w \in Writables, v \in Vals : DoSet(w, v)
  \/ \E c \in Cells : DoGet(c)
  \/ \E c \in Cells, sb \in Subscribers : DoSubscribe(c, sb)
  \/ \E c \in Cells, sb \in Subscribers : DoUnsubscribe(c, sb)

Spec == Init /\ [][Next]_vars

\* Batches: the callbacks are subscribed first; then the cells are written,
\* outside batches and inside batch() calls (nested ones included) that
\* also read them.
Started == lastOp.op \notin {"init", "subscribe"}

NextBatch ==
  \/ ~Started /\ \E c \in Cells, sb \in Subscribers : DoSubscribe(c, sb)
  \/ InBatch /\ batchOps < MaxBatchOps /\ \E w \in Writables, v \in Vals : DoSet(w, v)
  \/ InBatch /\ batchOps < MaxBatchOps /\ \E c \in Cells : DoGet(c)
  \/ BatchEnter
  \/ BatchExit
  \/ ~InBatch /\ \E w \in Writables, v \in Vals : DoSet(w, v)

SpecBatch == Init /\ [][NextBatch]_vars

\* Memoization: every Computed is built with the same cacheSize option.
InitCache ==
  \E n \in 0..MaxCacheSize :
     Start([d \in Computeds |-> n], DefaultOptions, DefaultGetters)

NextCache ==
  \/ \E v \in Vals : DoSet("a", v)
  \/ \E d \in Computeds : DoGet(d)
  \/ \E d \in Computeds, sb \in Subscribers : DoSubscribe(d, sb)
  \/ \E d \in Computeds, sb \in Subscribers : DoUnsubscribe(d, sb)

SpecCache == InitCache /\ [][NextCache]_vars

\* Equality option: b is built with a hasChanged that compares contents.
InitEq ==
  Start([d \in Computeds |-> DefaultCacheSize],
        [DefaultOptions EXCEPT !["b"] = "sameContent"], DefaultGetters)

NextEq ==
  \/ \E w \in Writables, v \in Vals : DoSet(w, v)
  \/ \E c \in {"b", "y"} : DoGet(c)
  \/ \E c \in {"b", "y"}, sb \in Subscribers : DoSubscribe(c, sb)
  \/ \E c \in {"b", "y"}, sb \in Subscribers : DoUnsubscribe(c, sb)

SpecEq == InitEq /\ [][NextEq]_vars

\* Conditional dependencies: y, read and subscribed, with and without a
\* cache, while a and b are written.
InitDeps ==
  \E n \in 0..DefaultCacheSize :
     Start([d \in Computeds |-> n], DefaultOptions, DefaultGetters)

NextDeps ==
  \/ \E w \in Writables, v \in Vals : DoSet(w, v)
  \/ DoGet("y")
  \/ \E c \in {"b", "y"}, sb \in Subscribers : DoSubscribe(c, sb)
  \/ \E c \in {"b", "y"}, sb \in Subscribers : DoUnsubscribe(c, sb)

SpecDeps == InitDeps /\ [][NextDeps]_vars

\* Untracked reads: x reads a through peek(), with and without a cache;
\* y reads x through get().
InitPeek ==
  \E n \in 0..DefaultCacheSize :
     Start([d \in Computeds |-> n], DefaultOptions,
           [DefaultGetters EXCEPT !["x"] = "peek"])

NextPeek ==
  \/ \E v \in Vals : DoSet("a", v)
  \/ \E d \in Computeds : DoGet(d)
  \/ \E d \in Computeds, sb \in Subscribers : DoSubscribe(d, sb)
  \/ \E d \in Computeds, sb \in Subscribers : DoUnsubscribe(d, sb)

SpecPeek == InitPeek /\ [][NextPeek]_vars

\* Subscriptions: two callbacks are attached to y, and one to b, with
\* observe and subscribe and detached again, with and without a cache,
\* while the cells are written.
InitSub ==
  \E n \in 0..DefaultCacheSize :
     Start([d \in Computeds |-> n], DefaultOptions, DefaultGetters)

Attached == {<<"y", "s1">>, <<"y", "s2">>, <<"b", "s1">>}

NextSub ==
  \/ \E w \in Writables, v \in Vals : DoSet(w, v)
  \/ \E p \in Attached : DoSubscribe(p[1], p[2])
  \/ \E p \in Attached : DoObserve(p[1], p[2])
  \/ \E p \in Attached : DoUnsubscribe(p[1], p[2])

SpecSub == InitSub /\ [][NextSub]_vars

\* Exceptions: x's getter throws when a is MaxVal. Operations are called
\* while the context stack holds fewer than MaxDepth Computeds.
InitThrow ==
  Start([d \in Computeds |-> DefaultCacheSize], DefaultOptions,
        [DefaultGetters EXCEPT !["x"] = "throw"])

NextThrow ==
  /\ Len(context) < MaxDepth
  /\ \/ \E v \in Vals : DoSet("a", v)
     \/ \E c \in Cells : DoGet(c)
     \/ \E d \in Computeds, sb \in Subscribers : DoSubscribe(d, sb)
     \/ \E d \in Computeds, sb \in Subscribers : DoUnsubscribe(d, sb)

SpecThrow == InitThrow /\ [][NextThrow]_vars

\* Effects: one watch() call, whose effect reads y, and the disposal of the
\* watcher, once or twice, while the cells are written outside and inside
\* a batch; x and y have a cache of one entry or more; the effect runs at
\* most MaxRuns times.
InitWatch ==
  \E n \in DefaultCacheSize..MaxCacheSize :
     Start([d \in Computeds |-> n], DefaultOptions, DefaultGetters)

NextWatch ==
  /\ watcher.runs < MaxRuns
  /\ \/ DoWatch
     \/ DoDispose
     \/ ~InBatch /\ \E w \in Writables, v \in Vals : DoSet(w, v)
     \/ InBatch /\ batchOps < MaxBatchOps /\ \E w \in Writables, v \in Vals : DoSet(w, v)
     \/ BatchEnter
     \/ BatchExit

SpecWatch == InitWatch /\ [][NextWatch]_vars

\* Propagation: the Computeds are built with a cacheSize of 0, 1 or 2 and
\* gain their subscribers first; then the cells are written, outside
\* batches and inside batch() calls.
NextProp ==
  \/ ~Started /\ \E d \in Computeds, sb \in Subscribers : DoSubscribe(d, sb)
  \/ ~InBatch /\ \E w \in Writables, v \in Vals : DoSet(w, v)
  \/ InBatch /\ batchOps < MaxBatchOps /\ \E w \in Writables, v \in Vals : DoSet(w, v)
  \/ BatchEnter
  \/ BatchExit

SpecProp == InitCache /\ [][NextProp]_vars

\* Failing batches: the callbacks are subscribed first; then the cells
\* are written outside and inside batch() calls whose action may throw.
NextBatchThrow ==
  \/ ~Started /\ \E w \in Writables, sb \in Subscribers : DoSubscribe(w, sb)
  \/ batchOps < MaxBatchOps /\ \E w \in Writables, v \in Vals : DoSet(w, v)
  \/ BatchEnter
  \/ BatchExit
  \/ BatchThrow

SpecBatchThrow == Init /\ [][NextBatchThrow]_vars

\* ---------------------------------------------------------------- claims
\* the callbacks of cell c invoked by the last operation because c changed
Notified(c, sb) ==
  {i \in 1..Len(log) : log[i].cell = c /\ log[i].sub = sb /\ log[i].kind = "change"}

UpToDate(c) ==
  \A sb \in Range(subscribers[c]) : delivered[c][sb] = TrueVal(value, c)

\* C1: when a set() on a Writable outside any batch returns, every
\* subscriber of the written cell and of every Computed depending on it
\* has last been invoked with the cell's current value.
C1_NoMissedUpdate ==
  (lastOp.op = "set" /\ ~lastOp.inBatch) =>
     \A c \in {lastOp.cell} \cup Readers(lastOp.cell) : UpToDate(c)

NotifiedIn(lg, c, sb) ==
  {i \in 1..Len(lg) : lg[i].cell = c /\ lg[i].sub = sb /\ lg[i].kind = "change"}

Flushed == lastOp.op = "batchExit" /\ lastOp.flush

\* C2: no callback is invoked for a change while a batch is open; the
\* flush of the outermost batch invokes each callback at most once, with
\* the cell's value under the final values of the writables.
C2_GlitchFree ==
  /\ (lastOp.inBatch /\ ~Flushed) => \A c \in Cells, sb \in Subscribers :
        Notified(c, sb) = {}
  /\ Flushed => \A c \in Cells, sb \in Subscribers :
        /\ Cardinality(Notified(c, sb)) <= 1
        /\ \A i \in Notified(c, sb) : log[i].val = TrueVal(value, c)

\* both writables were changed in the batch and y, which reads both, was
\* notified by the flush
C2_Witness ==
  /\ Flushed /\ Len(lastOp.items) = 2
  /\ value["a"] # lastOp.start["a"] /\ value["b"] # lastOp.start["b"]
  /\ Notified("y", "s1") # {}

C4_Deferral ==
  /\ (lastOp.inBatch /\ lastOp.op \in {"set", "get", "batchEnter"}) => log = <<>>
  /\ (lastOp.op = "batchExit" /\ ~lastOp.flush) =>
        log = <<>> /\ InBatch /\ batchStack # <<>>
  /\ Flushed => ~InBatch /\ batchStack = <<>> /\ batchedUpdateChecks.items = <<>>
  /\ (batchStack = <<>>) = ~InBatch

\* a nested batch was left with the change of a subscribed writable pending
C4_Witness ==
  /\ lastOp.op = "batchExit" /\ ~lastOp.flush
  /\ \E w \in Range(batchedUpdateChecks.items) :
        subscribers[w] # <<>> /\ delivered[w]["s1"] # value[w]
  /\ log = <<>>

\* C5: when the outermost batch exits, the callbacks of a cell that was
\* read inside the batch after the set() are invoked exactly once with the
\* final value, if it differs from the value they were last given.
C5_ReadKeepsNotification ==
  [][(lastOp'.op = "batchExit" /\ lastOp'.flush) =>
       \A c \in readInBatch : \A sb \in Range(subscribers[c]) :
          TrueVal(value', c) # delivered[c][sb] =>
             /\ Cardinality(NotifiedIn(log', c, sb)) = 1
             /\ delivered'[c][sb] = TrueVal(value', c)]_vars

Unobserved(d) == \A e \in {d} \cup Readers(d) : subscribers[e] = <<>>

C8_Memoized ==
  [][(/\ lastOp'.op = "get" /\ lastOp'.cell \in Computeds
      /\ cacheSize[lastOp'.cell] >= 1
      /\ \E i \in 1..Len(mru[lastOp'.cell]) :
            mru[lastOp'.cell][i] = TrueSnap(value, lastOp'.cell))
     => calls'[lastOp'.cell] = 0]_vars

TrailDone == trail # Broken /\ Len(trail) = cacheSize["x"] + 2

\* C9 as stated: over a cycle through cacheSize + 1 distinct values of a
\* and back to the first, x being read at each, the getter of x runs
\* cacheSize + 1 times.
C9_CycleCalls == TrailDone => trailCalls = cacheSize["x"] + 1

\* C9 as amended: it runs cacheSize + 2 times, the read back at the first
\* value being a miss.
C9_CycleCallsAmended == TrailDone => trailCalls = cacheSize["x"] + 2

\* the cycle was completed for cacheSize = 2
C9_Witness == TrailDone /\ cacheSize["x"] = 2 /\ lastOp.op = "get"

Snaps(entries) == [i \in 1..Len(entries) |-> entries[i].dependencies]

\* the elements of seq, each at its first occurrence
RECURSIVE Distinct(_)
Distinct(seq) ==
  IF seq = <<>> THEN <<>>
  ELSE LET front == Distinct(SubSeq(seq, 1, Len(seq) - 1))
           e == seq[Len(seq)]
       IN IF e \in Range(front) THEN front ELSE Append(front, e)

IsPrefix(p, q) == Len(p) <= Len(q) /\ SubSeq(q, 1, Len(p)) = p

\* C10: the cache lists its snapshots by recency of use, most recent
\* first: a hit moves the entry to the front and the entry dropped when
\* the cache overflows is the least recently used one.
C10_LruOrder ==
  \A d \in Computeds : IsPrefix(Distinct(Snaps(cache[d])), mru[d])

\* a read hit the entry at the back of a full cache of two and moved it
\* to the front
C10_Witness ==
  /\ lastOp.op = "get" /\ lastOp.cell \in Computeds /\ lastOp.hit = 2
  /\ Len(cache[lastOp.cell]) = 2
  /\ cache[lastOp.cell][1].dependencies = TrueSnap(value, lastOp.cell)
  /\ cache[lastOp.cell][2].dependencies # cache[lastOp.cell][1].dependencies

\* C11: a Computed with cacheSize 0 never stores a cache entry, and every
\* get() of it invokes its getter, also when the dependency values are
\* those of the previous read.
C11_CacheDisabled ==
  [][\A d \in Computeds : cacheSize[d] = 0 =>
        /\ cache'[d] = <<>>
        /\ (lastOp'.op = "get" /\ lastOp'.cell = d) => calls'[d] = 1]_vars

\* x, built with cacheSize 0, was read MaxReads times at the same value of
\* a and its getter ran each time
C11_Witness ==
  /\ cacheSize["x"] = 0 /\ trail = <<value["a"]>> /\ trailCalls = MaxReads
  /\ lastOp.op = "get" /\ lastOp.cell = "x" /\ calls["x"] = 1
  /\ cache["x"] = <<>>

\* C12: a set() with a value that the cell's hasChanged (the option, or
\* Object.is by default) reports as unchanged invokes no callback and
\* leaves every value as it was.
C12_EqualityOverride ==
  [][(/\ lastOp'.op = "set"
      /\ ~HasChanged(lastOp'.cell, value[lastOp'.cell], lastOp'.val))
     => log' = <<>> /\ value' = value]_vars

\* b, built with the content comparison, was set from 0 to 1 (another
\* reference, same content) while b and y, which reads b, had callbacks
C12_Witness ==
  /\ lastOp.op = "set" /\ lastOp.cell = "b" /\ lastOp.val = 1
  /\ options["b"] = "sameContent" /\ value["b"] = 0 /\ value["a"] > 0
  /\ subscribers["b"] # <<>> /\ subscribers["y"] # <<>>
  /\ "y" \in Range(dependents["b"])
  /\ log = <<>>

\* C13: while a is 0, so that the last run of the subscribed y took the
\* branch that does not read b, a set() on b neither invokes the getter of
\* y nor any callback of y.
C13_ConditionalDependency ==
  (/\ lastOp.op = "set" /\ lastOp.cell = "b"
   /\ value["a"] = 0 /\ subscribers["y"] # <<>>)
  => /\ calls["y"] = 0
     /\ \A sb \in Subscribers : Notified("y", sb) = {}

\* b changed (its callback was invoked) while y, built without a cache,
\* was subscribed and had read x and b on the other branch before
C13_Witness ==
  /\ lastOp.op = "set" /\ lastOp.cell = "b" /\ Notified("b", "s1") # {}
  /\ value["a"] = 0 /\ subscribers["y"] # <<>>
  /\ cacheSize["y"] = 0 /\ value["x"] # Undefined
  /\ calls["y"] = 0

\* C14: a set() outside a batch invokes no callback of a Computed whose
\* value after the set() equals the value that callback was last given.
C14_UnchangedIsSilent ==
  [][(lastOp'.op = "set" /\ ~lastOp'.inBatch) =>
       \A d \in Computeds : \A sb \in Range(subscribers[d]) :
          TrueVal(value', d) = delivered[d][sb]
          => NotifiedIn(log', d, sb) = {}]_vars

\* C15: a set() outside a batch invokes each callback of each subscribed
\* Computed reading the written cell exactly once, with the Computed's new
\* value, if that value changed, and not at all otherwise.
C15_OncePerWrite ==
  [][(lastOp'.op = "set" /\ ~lastOp'.inBatch) =>
       \A d \in Readers(lastOp'.cell) : \A sb \in Range(subscribers[d]) :
          IF TrueVal(value', d) # TrueVal(value, d)
          THEN /\ Cardinality(NotifiedIn(log', d, sb)) = 1
               /\ \A i \in NotifiedIn(log', d, sb) :
                     log'[i].val = TrueVal(value', d)
          ELSE NotifiedIn(log', d, sb) = {}]_vars

\* the value the callback sb of cell c had last been given when entry i
\* of the log lg was made
LastGiven(lg, i, c, sb) ==
  LET before == {j \in 1..(i - 1) : lg[j].cell = c /\ lg[j].sub = sb}
  IN IF before = {} THEN delivered[c][sb]
     ELSE lg[CHOOSE j \in before : \A k \in before : k <= j].val

\* C16: no operation invokes a callback of a cell for a change with a value
\* that the cell's hasChanged reports as equal to the value that callback
\* was last given.
C16_BroadcastInvariant ==
  [][\A i \in 1..Len(log') :
        log'[i].kind = "change" =>
           HasChanged(log'[i].cell,
                      LastGiven(log', i, log'[i].cell, log'[i].sub),
                      log'[i].val)]_vars

\* x, whose getter reads a through peek(), has no edge to a: it is not a
\* dependent of a and a is in none of its snapshots
NoEdge ==
  /\ "x" \notin Range(dependents["a"])
  /\ "a" \notin Range(lastDependencies["x"])
  /\ \A i \in 1..Len(cache["x"]) :
        \A j \in 1..Len(cache["x"][i].dependencies) :
           cache["x"][i].dependencies[j][1] # "a"

\* a set on a invokes no callback of x
SetIsSilent ==
  (lastOp'.op = "set" /\ lastOp'.cell = "a") =>
     \A sb \in Subscribers : NotifiedIn(log', "x", sb) = {}

\* a get of x, once x has a value, returns it without running the getter
GetKeepsValue ==
  (lastOp'.op = "get" /\ lastOp'.cell = "x" /\ value["x"] # Undefined) =>
     calls'["x"] = 0 /\ lastOp'.val = value["x"]

\* C17 (as stated): a read of a through peek() in x's getter registers no
\* edge and records nothing in a snapshot; a set on a never notifies x's
\* subscribers, and a later get of x never recomputes.
C17_PeekUntracked ==
  [][NoEdge' /\ SetIsSilent /\ GetKeepsValue]_vars

\* C17 (amended): the same, the last part only for a Computed that has a
\* cache (cacheSize > 0); without one every get runs the getter and
\* returns the value computed from the current a.
C17_PeekUntrackedAmended ==
  [][NoEdge' /\ SetIsSilent /\ (cacheSize["x"] # 0 => GetKeepsValue)]_vars

\* x, subscribed, returned a value computed from an older a
C17_Witness ==
  /\ lastOp.op = "get" /\ lastOp.cell = "x" /\ ~lastOp.threw
  /\ lastOp.val # value["a"] \div 2
  /\ subscribers["x"] # <<>>

\* C18: subscribe invokes the callback exactly once, before it returns,
\* with the value of the cell on the current values of the writables (and
\* invokes no other callback); observe adds the callback and invokes
\* nothing.
C18_SubscribeVsObserve ==
  [][/\ lastOp'.op = "subscribe" =>
          /\ log' = <<[cell |-> lastOp'.cell, sub |-> lastOp'.sub,
                       val |-> TrueVal(value', lastOp'.cell),
                       kind |-> "initial"]>>
          /\ lastOp'.sub \in Range(subscribers'[lastOp'.cell])
     /\ lastOp'.op = "observe" =>
          /\ log' = <<>>
          /\ delivered' = delivered
          /\ lastOp'.sub \in Range(subscribers'[lastOp'.cell])]_vars

\* a callback was subscribed to a Computed that held the value computed
\* from older values of its dependencies, and was given another value
C18_Witness ==
  /\ lastOp.op = "subscribe" /\ lastOp.cell \in Computeds
  /\ lastOp.was \notin {Undefined, lastOp.val}
  /\ lastOp.val = TrueVal(value, lastOp.cell)

\* C19: unsubscribe removes the callback and nothing else; for a callback
\* that is not subscribed (removed before, or never added) it changes
\* nothing; a change invokes the callbacks subscribed at that time only,
\* all of them or none of them, each with the same value.
C19_Unsubscribe ==
  [][/\ lastOp'.op = "unsubscribe" =>
          /\ subscribers' =
               [subscribers EXCEPT ![lastOp'.cell] =
                  SelectSeq(@, LAMBDA sb : sb # lastOp'.sub)]
          /\ lastOp'.sub \notin Range(subscribers[lastOp'.cell])
               => UNCHANGED progVars
          /\ log' = <<>>
     /\ \A i \in 1..Len(log') :
          log'[i].kind = "change" =>
             /\ log'[i].sub \in Range(subscribers[log'[i].cell])
             /\ \A sb \in Range(subscribers[log'[i].cell]) :
                   \E j \in 1..Len(log') :
                      log'[j] = [log'[i] EXCEPT !.sub = sb]]_vars

\* a callback was unsubscribed from y, which kept another one, and the
\* write that followed has invoked the one that stayed, and only that one,
\* with y's new value
C19_Witness ==
  /\ lastOp.op = "set" /\ lastOp.left = "y"
  /\ Len(subscribers["y"]) = 1
  /\ log = <<[cell |-> "y", sub |-> subscribers["y"][1],
              val |-> TrueVal(value, "y"), kind |-> "change"]>>

\* the cells x is registered with, or has recorded in a snapshot, are
\* cells its own getter reads; b is read by y's getter only
Innermost ==
  /\ "x" \notin Range(dependents["b"])
  /\ "b" \notin Range(lastDependencies["x"])
  /\ \A i \in 1..Len(cache["x"]) :
        \A j \in 1..Len(cache["x"][i].dependencies) :
           cache["x"][i].dependencies[j][1] = "a"

\* C20: every operation, whether a getter it ran returned or threw, leaves
\* the context stack as it found it (empty, outside every getter); reads
\* are attributed to the innermost computing Computed only; and a get()
\* outside every getter adds no dependent to the cell read.
C20_ContextDiscipline ==
  [][/\ context' = context
     /\ Innermost'
     /\ lastOp'.op = "get" =>
          dependents'[lastOp'.cell] = dependents[lastOp'.cell]]_vars

\* a get of x that finds a at MaxVal runs the getter, which throws
RetriesGetter ==
  (lastOp'.op = "get" /\ lastOp'.cell = "x" /\ value["a"] = MaxVal) =>
     calls'["x"] > 0 /\ lastOp'.threw

\* C21: when a getter throws (in an operation called outside every
\* getter), the exception reaches the caller and the values held and the
\* cache entries of the Computeds are as before; the next get runs the
\* getter again instead of returning a value.
C21_GetterFailureRecoverable ==
  [][/\ (lastOp'.threw /\ context = <<>>) =>
          /\ \A d \in Computeds : value'[d] = value[d]
          /\ cache' = cache
     /\ getter["x"] = "throw" => RetriesGetter]_vars

\* the runs of the effect in the events fx
RunsIn(fx) == {i \in 1..Len(fx) : fx[i][1] = "run"}

\* the operation that has just ended is one after which deferred updates
\* have been delivered: a set outside every batch or the exit of an
\* outermost batch
Delivers(op) == (op.op = "set" /\ ~op.inBatch) \/ (op.op = "batchExit" /\ op.flush)

\* the writables the latest run of the effect read, through y
ReadByEffect ==
  IF watcher.seenAt["a"] > 0 THEN {"a", "b"} ELSE {"a"}

\* C22: watch runs the effect once before it returns; afterwards a set
\* outside every batch, or the exit of an outermost batch, runs it exactly
\* once when it changes the value of y, which the effect read on its latest
\* run, and does not run it when it leaves every cell that run read,
\* directly or through y, as it was; a set inside a batch does not run it.
C22_EffectPerChange ==
  [][/\ lastOp'.op = "watch" => Cardinality(RunsIn(watcher'.fx)) = 1
     /\ (watcher.state = "active" /\ Delivers(lastOp')) =>
          /\ TrueVal(value', "y") # watcher.seen
               => Cardinality(RunsIn(watcher'.fx)) = 1
          /\ (\A c \in ReadByEffect : value'[c] = watcher.seenAt[c])
               => RunsIn(watcher'.fx) = {}
     /\ (watcher.state = "active" /\ lastOp'.op = "set" /\ lastOp'.inBatch) =>
          watcher'.fx = <<>>]_vars

\* the number of runs of the effect completed before event i of fx
RunsBefore(fx, i) ==
  watcher.runs + Cardinality({j \in 1..(i - 1) : fx[j][1] = "run"})

\* every cleanup invoked by the last operation is the one returned by the
\* latest completed run, and is invoked by a disposal or immediately
\* before the next run; every run but the first comes immediately after
\* the cleanup of the run before it
CleanupOrder ==
  \A i \in 1..Len(watcher'.fx) :
     LET e == watcher'.fx[i]
     IN /\ e[1] = "cleanup" =>
             /\ e[2] = RunsBefore(watcher'.fx, i)
             /\ \/ lastOp'.op = "dispose"
                \/ i < Len(watcher'.fx) /\ watcher'.fx[i + 1] = <<"run", e[2] + 1>>
        /\ (e[1] = "run" /\ e[2] > 1) =>
             i > 1 /\ watcher'.fx[i - 1] = <<"cleanup", e[2] - 1>>

\* C23: every cleanup is invoked in order, immediately before the next
\* run or at disposal, and never a second time, also when the function
\* watch() returned is called again.
C23_CleanupOrdering ==
  [][/\ CleanupOrder
     /\ \A k \in 1..MaxRuns : watcher'.cleaned[k] <= 1
     /\ (lastOp'.op = "dispose" /\ watcher.runs > 0) =>
          watcher'.cleaned[watcher.runs] >= 1]_vars

\* C24: once the function watch() returned has been called, no operation
\* runs the effect.
C24_DisposedIsDead ==
  [][watcher.state = "disposed" => RunsIn(watcher'.fx) = {}]_vars

\* after the disposal a set outside every batch has changed y, which the
\* effect had read, and the effect has not run
C24_Witness ==
  /\ watcher.state = "disposed"
  /\ lastOp.op = "set" /\ ~lastOp.inBatch
  /\ TrueVal(value, "y") # watcher.seen
  /\ watcher.fx = <<>>

\* C25: whenever the callback of a provideAsync call runs, before and
\* after its await, context.value is the value of that call; when the
\* promise of the call has resolved, context.value is what it was before
\* the call. The same for provide.
C25_ProvideAsyncScoping ==
  /\ \A p \in Tasks :
        /\ tasks[p].pc # "idle" => tasks[p].seen = tasks[p].v
        /\ tasks[p].pc = "done" => tasks[p].after = tasks[p].before
  /\ provided.v # None => provided.seen = provided.v

\* the Computed d adopted a cached entry in this step: its getter was
\* not invoked and another entry is at the front of its cache
AdoptedByHit(d) ==
  /\ calls'[d] = 0
  /\ Len(cache[d]) > 0
  /\ cache'[d][1] # cache[d][1]

\* d is a dependent of every dependency recorded in the entry at the
\* front of its cache
RegisteredWithEntry(deps, ch, d) ==
  \A j \in 1..Len(ch[d][1].dependencies) :
     d \in Range(deps[ch[d][1].dependencies[j][1]])

\* C26: when a Computed that has subscribers adopts a cached entry through
\* a cache hit, it is a dependent of every dependency recorded in that
\* entry.
C26_CacheHitKeepsTracked ==
  [][\A d \in Computeds :
       (subscribers'[d] # <<>> /\ AdoptedByHit(d)) =>
          RegisteredWithEntry(dependents', cache', d)]_vars

\* the cells the getter of d reads under the values vals
ReadsUnder(vals, d) ==
  IF d = "x" THEN {"a"}
  ELSE IF vals["a"] > 0 THEN {"a", "x", "b"} ELSE {"a"}

\* d is a dependent of every cell its getter reads under the values vals
TracksCurrent(deps, vals, d) ==
  \A c \in ReadsUnder(vals, d) : d \in Range(deps[c])

\* C27: when y gains its first subscriber it is a dependent of every cell
\* its getter reads under the current values; a later set that changes the
\* value of y while it has the subscriber invokes the callback with the
\* new value.
C27_SubscriberTracksCurrent ==
  [][/\ (lastOp'.op = "subscribe" /\ subscribers["y"] = <<>>) =>
          TracksCurrent(dependents', value', "y")
     /\ (lastOp'.op = "set" /\ subscribers["y"] # <<>>
           /\ TrueVal(value', "y") # TrueVal(value, "y")) =>
          \A sb \in Range(subscribers["y"]) :
             \E i \in NotifiedIn(log', "y", sb) :
                log'[i].val = TrueVal(value', "y")]_vars

\* C28: subscribing to a Computed directly after its last subscriber was
\* removed (lastOp.was is the value it had then), with no set in between,
\* does not invoke its getter.
C28_ResubscribeNoRecompute ==
  [][(lastOp.op = "unsubscribe" /\ lastOp.cell = "y"
        /\ lastOp.was # None /\ subscribers["y"] = <<>>
        /\ lastOp'.op = "subscribe" /\ lastOp'.cell = "y") =>
       calls'["y"] = 0]_vars

\* the set() or the flushing batch exit that made this state ran to
\* completion: the call stack was not exhausted
Completed == ~lastOp.threw

C30_UnsubscribeDuringNotification ==
  [][(lastOp'.op = "set"
        /\ \E sb \in Range(subscribers["y"]) \cap once :
              NotifiedIn(log', "y", sb) # {}) =>
       \A sb \in Range(subscribers["y"]) :
          Cardinality(NotifiedIn(log', "y", sb)) = 1]_vars

C30_Witness ==
  /\ lastOp.op = "set" /\ once = {"s1"}
  /\ subscribers["y"] = <<"s2">>
  /\ Len(log) = 2 /\ log[1].sub = "s1" /\ log[2].sub = "s2"
  /\ log[1].cell = "y" /\ log[2].cell = "y"
  /\ log[2].val = TrueVal(value, "y")

\* the cells that list d among their dependents
ListedBy(deps, d) == {c \in Cells : d \in Range(deps[c])}

\* C31: after an operation in which the getter of a Computed ran, the
\* cells that list the Computed among their dependents are exactly the
\* cells its getter reads through get() under the current values.
C31_DependenciesReplaced ==
  \A d \in Computeds :
     calls[d] > 0 => ListedBy(dependents, d) = ReadsUnder(value, d)

\* y was recomputed on the branch that reads a alone, after a computation
\* that read x and b: neither of them lists y any more
C31_Witness ==
  /\ lastOp.op = "set" /\ lastOp.cell = "a" /\ calls["y"] > 0
  /\ value["a"] = 0 /\ ListedBy(dependents, "y") = {"a"}
  /\ \E i \in 1..Len(mru["y"]) : Len(mru["y"][i]) = 3

\* the cache of d holds an entry recorded under the current values
HasEntryFor(d) ==
  \E i \in 1..Len(cache[d]) : cache[d][i].dependencies = TrueSnap(value, d)

\* the set() of this step is one the equality policy of the Writable
\* reports as no change
UnchangedSet ==
  /\ lastOp'.op = "set"
  /\ ~HasChanged(lastOp'.cell, value[lastOp'.cell], lastOp'.val)

\* C32: a set() that the equality policy reports as no change leaves the
\* values, the pending set of the batch, the caches and the edges as they
\* are and invokes nothing; a get() of a Computed whose cache holds an
\* entry for the current values, as it still does after such a set(),
\* does not invoke its getter.
C32_UnchangedSetIsNoOp ==
  [][/\ UnchangedSet =>
          /\ value' = value
          /\ batchedUpdateChecks' = batchedUpdateChecks
          /\ cache' = cache
          /\ dependents' = dependents
          /\ lastBroadcastValue' = lastBroadcastValue
          /\ log' = <<>>
          /\ \A d \in Computeds : calls'[d] = 0
          /\ \A d \in Computeds : HasEntryFor(d) <=> HasEntryFor(d)'
     /\ \A d \in Computeds :
          (lastOp'.op = "get" /\ lastOp'.cell = d /\ HasEntryFor(d)) =>
             calls'[d] = 0]_vars

\* a set() inside a batch that did not put the Writable in the pending
\* set, which holds another one, while y has an entry for the current values
C32_Witness ==
  /\ lastOp.op = "set" /\ lastOp.inBatch /\ lastOp.cell = "b"
  /\ batchedUpdateChecks.items = <<"a">>
  /\ HasEntryFor("y") /\ value["a"] > 0
  /\ log = <<>>

\* C33: the cache of a Computed never holds more than cacheSize entries
\* (none when cacheSize is 0), and a get() answered from the cache leaves
\* the number of entries as it was.
C33_CacheBound ==
  [][\A d \in Computeds :
       /\ Len(cache'[d]) <= cacheSize[d]
       /\ (lastOp'.op = "get" /\ lastOp'.cell = d /\ lastOp'.hit # 0) =>
             Len(cache'[d]) = Len(cache[d])]_vars

\* a full cache of two entries answered a get() from its second entry
C33_Witness ==
  /\ lastOp.op = "get" /\ lastOp.cell = "y" /\ lastOp.hit = 2
  /\ cacheSize["y"] = MaxCacheSize /\ Len(cache["y"]) = cacheSize["y"]
  /\ calls["y"] = 0

\* the handles of the idle requests pending for d
Pending(reqs, d) ==
  {reqs[i].handle : i \in {j \in 1..Len(reqs) : reqs[j].cell = d}}

\* C34: the idle request pending for a Computed, if any, is the one its
\* _idleCallbackHandle names, so there is at most one; a new request
\* removes the one pending before; after a get() of the Computed none is
\* pending; the window runs only a request that is still the current one,
\* and that run invokes the getter once.
C34_IdleSuperseded ==
  [][\A d \in Computeds :
       /\ Pending(idleRequests', d) = {idleCallbackHandle'[d]} \ {0}
       /\ Cardinality(Pending(idleRequests', d)) <= 1
       /\ idleCallbackHandle'[d] \notin {0, idleCallbackHandle[d]} =>
             Pending(idleRequests, d) \cap Pending(idleRequests', d) = {}
       /\ (lastOp'.op = "get" /\ lastOp'.cell = d) =>
             Pending(idleRequests', d) = {}
       /\ (lastOp'.op = "idle" /\ lastOp'.cell = d) =>
             /\ lastOp'.val = idleCallbackHandle[d]
             /\ calls'[d] = 1]_vars

\* only y computes on idle; the request of its constructor is gone, and
\* a set() of a replaced the request of an earlier set() by a third one
C34_Witness ==
  /\ lastOp.op = "set" /\ lastOp.cell = "a"
  /\ computeOnIdle["y"] /\ ~computeOnIdle["x"]
  /\ idleSeq = 3 /\ idleCallbackHandle["y"] = 3
  /\ idleRequests = <<[handle |-> 3, cell |-> "y"]>>

\* the cells whose dependents a set() of w walks: w, and x when it is a
\* live dependent of w
Walked(w) ==
  {w} \cup {d \in Range(dependents[w]) \cap {"x"} : Deref(d)}

\* C35: a set() that changes a Writable outside a batch completes; after
\* it no walked cell lists a collected Computed, every live dependent is
\* still listed unless its own recomputation in this set() no longer read
\* the cell, and a live dependent that has subscribers has re-checked
\* itself: its value is the one under the new values.
C35_DeadDependentsPruned ==
  [][(lastOp'.op = "set" /\ ~lastOp'.inBatch
        /\ value'[lastOp'.cell] # value[lastOp'.cell]) =>
       /\ ~lastOp'.threw
       /\ \A c \in Walked(lastOp'.cell) :
             /\ Range(dependents'[c]) \cap collected = {}
             /\ \A d \in Range(dependents[c]) \ collected :
                   d \in Range(dependents'[c]) \/ calls'[d] > 0
       /\ \A d \in (Range(dependents[lastOp'.cell]) \cap Computeds) \ collected :
             subscribers[d] # <<>> => value'[d] = TrueVal(value', d)]_vars

\* y was collected while a listed it; a set() of a removed it from the
\* dependents of a and of x and kept x, which recomputed
C35_Witness ==
  /\ lastOp.op = "set" /\ lastOp.cell = "a" /\ collected = {"y"}
  /\ "a" \in Range(lastDependencies["y"]) /\ "x" \in Range(lastDependencies["y"])
  /\ "y" \notin Range(dependents["a"]) /\ "y" \notin Range(dependents["x"])
  /\ "x" \in Range(dependents["a"])
  /\ subscribers["x"] # <<>> /\ calls["x"] > 0
  /\ value["x"] = TrueVal(value, "x")

\* C36: every get() of a Computed with a cache, and every value a
\* subscribe() hands to the new callback, is the value of the getter under
\* the current values of the Writables.
C36_MemoizationTransparent ==
  [][/\ (lastOp'.op = "get" /\ lastOp'.cell \in Computeds) =>
          lastOp'.val = TrueVal(value', lastOp'.cell)
     /\ (lastOp'.op = "subscribe" /\ lastOp'.cell \in Computeds) =>
          lastOp'.val = TrueVal(value', lastOp'.cell)]_vars

\* a get() of y answered from the second entry of its cache, inside a
\* batch that wrote a dependency
C36_Witness ==
  /\ lastOp.op = "get" /\ lastOp.cell = "y" /\ lastOp.hit = 2 /\ lastOp.inBatch
  /\ batchedUpdateChecks.items # <<>>
  /\ calls["y"] = 0 /\ value["a"] > 0
  /\ lastOp.val = TrueVal(value, "y")

\* C37: when the action of a batch() has thrown no batch is open any
\* more; a set() made while no batch() call is active that changes a
\* Writable invokes its callbacks in that set(); the exit of a batch()
\* entered while no other one is active flushes.
C37_FailedBatchCloses ==
  [][/\ lastOp'.op = "batchThrow" => batchedUpdateChecks'.isNull
     /\ (lastOp'.op = "set" /\ batchStack = <<>>
           /\ value'[lastOp'.cell] # value[lastOp'.cell]) =>
          \A sb \in Range(subscribers[lastOp'.cell]) :
             NotifiedIn(log', lastOp'.cell, sb) # {}
     /\ (lastOp'.op = "batchExit" /\ Len(batchStack) = 1) =>
          batchedUpdateChecks'.isNull]_vars

\* the callback that writes ran in the operation that made this log
Reacted(lg) ==
  \E i \in 1..Len(lg) : lg[i].cell = reaction.on /\ lg[i].sub = "s1"

\* C38: when the callback that writes ran during the flush of the
\* outermost batch, every callback of the Writable it wrote has, when
\* batch() returns, last been given the value the Writable has.
C38_SetDuringFlush ==
  [][(lastOp'.op = "batchExit" /\ lastOp'.flush /\ Reacted(log')) =>
       \A sb \in Range(subscribers'[reaction.target]) :
          delivered'[reaction.target][sb] = value'[reaction.target]]_vars

\* the callback sb of c was invoked in the operation that made this log
Invoked(lg, c, sb) ==
  \E i \in 1..Len(lg) : lg[i].cell = c /\ lg[i].sub = sb

\* C39: a callback attached to a Derived with observe() is not invoked by
\* the next write of a dependency when the Derived's value after the write
\* equals the value it had when the callback was attached.
C39_ObserveNoSpuriousCall ==
  [][(/\ lastOp.op = "observe" /\ lastOp.cell \in Computeds /\ ~lastOp.threw
      /\ lastOp'.op = "set"
      /\ TrueVal(value', lastOp.cell) = TrueVal(value, lastOp.cell))
       => ~Invoked(log', lastOp.cell, lastOp.sub)]_vars

\* C40: when subscribe() attaches a callback to a cell inside a batch and
\* the outermost batch then exits, every callback attached to the cell
\* earlier has last been given the value the cell has.
C40_LateSubscribe ==
  [][(/\ lastOp.op = "subscribe" /\ lastOp.inBatch
      /\ lastOp'.op = "batchExit" /\ lastOp'.flush)
       => \A sb \in Range(subscribers[lastOp.cell]) \ {lastOp.sub} :
             delivered'[lastOp.cell][sb] = value'[lastOp.cell]]_vars

====
